---- MODULE Spec2Model ----
(***************************************************************************)
(* Model of the Azure pricing MCP server (src/src/index.ts): the filter    *)
(* builder, the paginated fetcher, the report formatters and the request   *)
(* dispatcher.  A tool call is one behaviour: CallTool runs the handler up *)
(* to its first await, FirstResponse / NextResponse run it from one        *)
(* upstream response to the next await or to the handler's return.         *)
(*                                                                         *)
(* Strings the program builds are sequences of tokens (records); the empty *)
(* string is the empty sequence, so JavaScript truthiness of a built       *)
(* string is non-emptiness of its token sequence.  A parameter bag is a    *)
(* function whose domain holds the supplied keys.                          *)
(***************************************************************************)
EXTENDS Integers, Sequences, FiniteSets, TLC

VARIABLES
    pc,          \* "idle" | "awaitFirst" | "awaitNext" | "done"
    name,        \* request.params.name
    args,        \* request.params.arguments (meaningful when hasArgs)
    hasArgs,     \* FALSE: the request carried no arguments (undefined)
    params,      \* params handed to fetchWithPagination
    maxResults,  \* maxResults handed to fetchWithPagination
    url,         \* search parameters of the initial request
    items,       \* fetchWithPagination: items
    response,    \* fetchWithPagination: response
    fetched,     \* value returned by fetchWithPagination
    result,      \* value returned by the CallToolRequestSchema handler
    requests,    \* history: requests issued so far (saturates at MaxCount)
    lastStatus,  \* history: how the latest request ended
    lastRequest, \* history: which request ended latest: "initial" | "next"
    arrived,     \* history: items delivered by the upstream, in order
    firstItems,  \* history: Items of the initial response
    served       \* history: non-empty pages the upstream has delivered

vars == <<pc, name, args, hasArgs, params, maxResults, url, items, response,
          fetched, result, requests, lastStatus, lastRequest, arrived,
          firstItems, served>>

-----------------------------------------------------------------------------
(* Bounds of the model *)

\* non-empty pages the upstream holds (empty pages are not bounded)
MaxPages == 3
\* longest page of the general upstream
MaxPageLen == 3
\* the request counter saturates here
MaxCount == 4
\* longest base pattern of a comparison page
MaxBase == 4
\* most repetitions of the base pattern in a comparison page
MaxReps == 4

-----------------------------------------------------------------------------
(* Program constants *)

API_VERSION == "2023-01-01-preview"

DefaultQueryMax == 100
HardQueryMax == 1000
CompareMax == 500
ReservationMax == 200
DefaultFamilyMax == 500
HardFamilyMax == 2000
CompareTop == 10
ProductTop == 20

ToolNames == {"query_azure_prices", "compare_vm_prices", "get_service_families",
              "get_reservation_prices", "get_services_by_family"}

SERVICE_FAMILIES ==
    << "Analytics", "Azure Arc", "Azure Communication Services",
       "Azure Security", "Azure Stack", "Compute", "Containers", "Data",
       "Databases", "Developer Tools", "Dynamics", "Gaming", "Integration",
       "Internet of Things", "Management and Governance", "Microsoft Syntex",
       "Mixed Reality", "Networking", "Other", "Power Platform",
       "Quantum Computing", "Security", "Storage", "Telecommunications",
       "Web", "Windows Virtual Desktop" >>

simpleFilters ==
    << [param |-> "serviceName",   field |-> "serviceName"],
       [param |-> "serviceFamily", field |-> "serviceFamily"],
       [param |-> "armRegionName", field |-> "armRegionName"],
       [param |-> "armSkuName",    field |-> "armSkuName"],
       [param |-> "priceType",     field |-> "priceType"],
       [param |-> "productName",   field |-> "productName"],
       [param |-> "skuName",       field |-> "skuName"],
       [param |-> "meterName",     field |-> "meterName"] >>

-----------------------------------------------------------------------------
(* JavaScript helpers *)

Null == "null"
NoBag == <<>>

Has(p, k) == k \in DOMAIN p

\* params[k] is truthy, for a string-valued key
TruthyStr(p, k) == Has(p, k) /\ p[k] # ""

\* params[k] is truthy, for a number-valued key
TruthyNum(p, k) == Has(p, k) /\ p[k] # 0

\* params[k] is truthy, for a boolean-valued key
TruthyBool(p, k) == Has(p, k) /\ p[k] = TRUE

MathMin(a, b) == IF a < b THEN a ELSE b

Range(s) == {s[i] : i \in 1..Len(s)}

Includes(s, v) == v \in Range(s)

\* Array.prototype.slice(0, end) for an integer end
Slice(a, end) ==
    LET n == Len(a)
        k == IF end < 0 THEN (IF n + end < 0 THEN 0 ELSE n + end)
             ELSE MathMin(end, n)
    IN  SubSeq(a, 1, k)

\* Array.prototype.push(...more)
Push(a, more) == a \o more

-----------------------------------------------------------------------------
(* buildFilter *)

Clause(field, value) == [kind |-> "eq", field |-> field, value |-> value]

Verbatim(text) == [kind |-> "verbatim", text |-> text]

Separator(text) == [kind |-> "separator", text |-> text]

\* the loop over Object.entries(simpleFilters), from entry i on
RECURSIVE SimpleClauses(_, _)
SimpleClauses(p, i) ==
    IF i > Len(simpleFilters) THEN <<>>
    ELSE LET e == simpleFilters[i]
         IN  (IF TruthyStr(p, e.param)
                 THEN <<Clause(e.field, p[e.param])>>
                 ELSE <<>>) \o SimpleClauses(p, i + 1)

CustomClauseDropped(p) == <<>>

CustomClause(p) ==
    IF TruthyStr(p, "customFilter") THEN <<Verbatim(p["customFilter"])>> ELSE <<>>

\* Array.prototype.join(sep) on a list of one-token strings
RECURSIVE Join(_, _)
Join(list, sep) ==
    IF Len(list) = 0 THEN <<>>
    ELSE IF Len(list) = 1 THEN <<list[1]>>
    ELSE <<list[1], Separator(sep)>> \o Join(Tail(list), sep)

buildFilter(p) == Join(SimpleClauses(p, 1) \o CustomClause(p), " and ")

-----------------------------------------------------------------------------
(* queryAzurePrices: the URL of the initial request *)

RequestUrl(p) ==
    LET filter == buildFilter(p)
    IN  ("api-version" :> <<Verbatim(API_VERSION)>>)
        @@ (IF TruthyStr(p, "currencyCode")
               THEN "currencyCode" :> <<[kind |-> "quoted", text |-> p["currencyCode"]]>>
               ELSE NoBag)
        @@ (IF TruthyBool(p, "primaryOnly")
               THEN "meterRegion" :> <<[kind |-> "quoted", text |-> "primary"]>>
               ELSE NoBag)
        @@ (IF filter # <<>> THEN "$filter" :> filter ELSE NoBag)

-----------------------------------------------------------------------------
(* PriceItem values of the modelled upstream *)

Item(sku, price, region, plainSku, service, product, term) ==
    [armSkuName |-> sku, retailPrice |-> price, armRegionName |-> region,
     skuName |-> plainSku, serviceName |-> service, productName |-> product,
     reservationTerm |-> term]

ItemPool ==
    << Item("A", 3, "eastus", "A v1", "Virtual Machines", "Virtual Machines A Series", ""),
       Item("A", 1, "westus", "A v1", "Virtual Machines", "Virtual Machines A Series", "1 Year"),
       Item("A", 2, "eastus", "A v1 Spot", "Virtual Machines", "Virtual Machines A Series Windows", ""),
       Item("B", 5, "eastus", "B v2", "Virtual Machines", "Virtual Machines B Series", "3 Years"),
       Item("",  1, "westus", "Hot LRS", "Storage", "Blob Storage", ""),
       Item("A", 1, "eastus", "A v1 Low Priority", "Virtual Machines", "Virtual Machines A Series", "") >>

\* the order of String.prototype.localeCompare and of the default sort on
\* the service and product names of ItemPool
LexOrder ==
    << "Blob Storage", "Storage", "Virtual Machines", "Virtual Machines A Series",
       "Virtual Machines A Series Windows", "Virtual Machines B Series" >>

LexRank(s) == CHOOSE i \in 1..Len(LexOrder) : LexOrder[i] = s

Text(t) == <<Verbatim(t)>>

-----------------------------------------------------------------------------
(* formatPriceItems *)

Block(item) ==
    [kind |-> "block", item |-> item,
     armSku |-> IF item.armSkuName # "" THEN item.armSkuName ELSE "N/A",
     withTerm |-> item.reservationTerm # ""]

Blocks(list) == [i \in 1..Len(list) |-> Block(list[i])]

formatPriceItems(list) ==
    IF Len(list) = 0
    THEN Text("No prices found matching the criteria.")
    ELSE <<[kind |-> "found", count |-> Len(list)]>> \o Join(Blocks(list), "\n\n")

-----------------------------------------------------------------------------
(* Insertion-ordered Map<string, PriceItem[]> as a sequence of entries *)

MapHas(m, key) == \E i \in 1..Len(m) : m[i].key = key

MapPush(m, key, item) ==
    LET m1 == IF MapHas(m, key) THEN m ELSE Append(m, [key |-> key, values |-> <<>>])
    IN  [i \in 1..Len(m1) |->
            IF m1[i].key = key
            THEN [key |-> key, values |-> Append(m1[i].values, item)]
            ELSE m1[i]]

\* for (const item of list) { grouped.get(key)!.push(item) }, from item i on;
\* keys[i] is the key computed for list[i]
RECURSIVE GroupFrom(_, _, _, _)
GroupFrom(list, keys, i, m) ==
    IF i > Len(list) THEN m
    ELSE GroupFrom(list, keys, i + 1, MapPush(m, keys[i], list[i]))

-----------------------------------------------------------------------------
(* compare_vm_prices *)

CompareParams(a) ==
    [serviceName |-> "Virtual Machines",
     priceType |-> IF TruthyStr(a, "priceType") THEN a["priceType"] ELSE "Consumption"]
    @@ (IF TruthyStr(a, "currencyCode") THEN "currencyCode" :> a["currencyCode"] ELSE NoBag)
    @@ (IF TruthyStr(a, "skuName") THEN "armSkuName" :> a["skuName"] ELSE NoBag)

RegionFilter(list, a) ==
    IF Has(a, "regions") /\ Len(a["regions"]) > 0
    THEN SelectSeq(list, LAMBDA item : Includes(a["regions"], item.armRegionName))
    ELSE list

CompareKey(item) == item.armSkuName

\* Array.prototype.sort((a, b) => a.retailPrice - b.retailPrice): stable
InsertByPrice(sorted, item) ==
    LET k == Cardinality({i \in 1..Len(sorted) : sorted[i].retailPrice <= item.retailPrice})
    IN  SubSeq(sorted, 1, k) \o <<item>> \o SubSeq(sorted, k + 1, Len(sorted))

RECURSIVE SortFrom(_, _, _)
SortFrom(list, i, sorted) ==
    IF i > Len(list) THEN sorted
    ELSE SortFrom(list, i + 1, InsertByPrice(sorted, list[i]))

Unsorted(list) == list

SortByPrice(list) == SortFrom(list, 1, <<>>)

TopCheapest(list) == Slice(list, CompareTop)

CompareLine(p) ==
    [kind |-> "line", armRegionName |-> p.armRegionName,
     retailPrice |-> p.retailPrice, productName |-> p.productName]

Heading(sku) == [kind |-> "heading", sku |-> sku]

BlankLine == [kind |-> "blank"]

CompareGroup(entry) ==
    LET shown == TopCheapest(SortByPrice(entry.values))
    IN  <<Heading(entry.key)>> \o [i \in 1..Len(shown) |-> CompareLine(shown[i])]
        \o <<BlankLine>>

RECURSIVE Flatten(_)
Flatten(parts) == IF Len(parts) = 0 THEN <<>> ELSE Head(parts) \o Flatten(Tail(parts))

\* JavaScript a || b on strings
OrElse(a, b) == IF a # <<>> THEN a ELSE b

CompareReport(list, a) ==
    LET filtered == RegionFilter(list, a)
        grouped == GroupFrom(filtered, [i \in 1..Len(filtered) |-> CompareKey(filtered[i])], 1, <<>>)
        report == Text("## VM Price Comparison\n\n")
                  \o Flatten([i \in 1..Len(grouped) |-> CompareGroup(grouped[i])])
    IN  OrElse(report, Text("No VM prices found for the specified criteria."))

-----------------------------------------------------------------------------
(* get_reservation_prices *)

ReservationParams(a) ==
    [priceType |-> "Reservation"]
    @@ (IF Has(a, "serviceName") THEN "serviceName" :> a["serviceName"] ELSE NoBag)
    @@ (IF Has(a, "armSkuName") THEN "armSkuName" :> a["armSkuName"] ELSE NoBag)
    @@ (IF Has(a, "armRegionName") THEN "armRegionName" :> a["armRegionName"] ELSE NoBag)
    @@ (IF Has(a, "currencyCode") THEN "currencyCode" :> a["currencyCode"] ELSE NoBag)

ReservationKey(item) == IF item.armSkuName # "" THEN item.armSkuName ELSE item.skuName

ReservationLine(p) ==
    [kind |-> "line",
     term |-> IF p.reservationTerm # "" THEN p.reservationTerm ELSE "N/A",
     retailPrice |-> p.retailPrice, productName |-> p.productName]

ReservationGroup(entry) ==
    <<Heading(entry.key)>>
    \o [i \in 1..Len(entry.values) |-> ReservationLine(entry.values[i])]
    \o <<BlankLine>>

ReservationReport(list) ==
    IF Len(list) = 0
    THEN Text("No reservation prices found for the specified criteria.")
    ELSE LET grouped == GroupFrom(list, [i \in 1..Len(list) |-> ReservationKey(list[i])], 1, <<>>)
         IN  Text("## Reservation Prices\n\n")
             \o Flatten([i \in 1..Len(grouped) |-> ReservationGroup(grouped[i])])

-----------------------------------------------------------------------------
(* get_services_by_family *)

\* the elements of a set of names in lexicographic order
RECURSIVE SortNames(_)
SortNames(S) ==
    IF S = {} THEN <<>>
    ELSE LET least == CHOOSE s \in S : \A t \in S : LexRank(s) <= LexRank(t)
         IN  <<least>> \o SortNames(S \ {least})

ServiceNames(list) == {list[i].serviceName : i \in 1..Len(list)}

Products(list, service) ==
    {list[i].productName : i \in {j \in 1..Len(list) : list[j].serviceName = service}}

ServiceSection(list, service) ==
    LET products == Products(list, service)
        shown == Slice(SortNames(products), ProductTop)
    IN  <<[kind |-> "heading", service |-> service],
          [kind |-> "products", count |-> Cardinality(products)]>>
        \o [i \in 1..Len(shown) |-> [kind |-> "line", productName |-> shown[i]]]
        \o (IF Cardinality(products) > ProductTop
               THEN <<[kind |-> "more", count |-> Cardinality(products) - ProductTop]>>
               ELSE <<>>)
        \o <<BlankLine>>

FamilyReport(list, serviceFamily) ==
    IF Len(list) = 0
    THEN <<[kind |-> "nofamily", serviceFamily |-> serviceFamily]>>
    ELSE LET sortedServices == SortNames(ServiceNames(list))
         IN  <<[kind |-> "family", serviceFamily |-> serviceFamily],
               [kind |-> "found", services |-> Len(sortedServices), records |-> Len(list)]>>
             \o Flatten([i \in 1..Len(sortedServices) |->
                            ServiceSection(list, sortedServices[i])])

FamiliesReport ==
    Text("## Azure Service Families\n\n") \o
    Join([i \in 1..Len(SERVICE_FAMILIES) |-> [kind |-> "line", family |-> SERVICE_FAMILIES[i]]], "\n")

-----------------------------------------------------------------------------
(* handleToolCall: up to the call of fetchWithPagination *)

Return(text) == [kind |-> "return", text |-> text]

Throw(message) == [kind |-> "throw", message |-> message]

Fetch(p, max) == [kind |-> "fetch", params |-> p, maxResults |-> max]

\* reading a property of undefined arguments
TypeError(property) == Throw(<<[kind |-> "typeerror", reading |-> property]>>)

\* Math.min((args.maxResults as number) || dflt, hard)
CapOf(a, dflt, hard) ==
    MathMin(IF TruthyNum(a, "maxResults") THEN a["maxResults"] ELSE dflt, hard)

ServiceFamilyOf(a) == IF Has(a, "serviceFamily") THEN a["serviceFamily"] ELSE "undefined"

UnknownFamily(serviceFamily) ==
    <<[kind |-> "unknownfamily", serviceFamily |-> serviceFamily,
       use |-> "get_service_families"]>>

FamilyFetchAlways(a) ==
    Fetch([serviceFamily |-> ServiceFamilyOf(a)], CapOf(a, DefaultFamilyMax, HardFamilyMax))

FamilyPrelude(a) ==
    IF ~Includes(SERVICE_FAMILIES, ServiceFamilyOf(a))
    THEN Return(UnknownFamily(ServiceFamilyOf(a)))
    ELSE Fetch([serviceFamily |-> ServiceFamilyOf(a)],
               CapOf(a, DefaultFamilyMax, HardFamilyMax))

Prelude(n, a, h) ==
    CASE n = "query_azure_prices" ->
            IF ~h THEN TypeError("maxResults")
            ELSE Fetch(a, CapOf(a, DefaultQueryMax, HardQueryMax))
      [] n = "compare_vm_prices" ->
            IF ~h THEN TypeError("priceType")
            ELSE Fetch(CompareParams(a), CompareMax)
      [] n = "get_service_families" -> Return(FamiliesReport)
      [] n = "get_reservation_prices" ->
            IF ~h THEN TypeError("serviceName")
            ELSE Fetch(ReservationParams(a), ReservationMax)
      [] n = "get_services_by_family" ->
            IF ~h THEN TypeError("serviceFamily") ELSE FamilyPrelude(a)
      [] OTHER -> Throw(<<[kind |-> "unknowntool", name |-> n]>>)

(* handleToolCall: from the return of fetchWithPagination on *)
Report(n, a, list) ==
    CASE n = "query_azure_prices" -> formatPriceItems(list)
      [] n = "compare_vm_prices" -> CompareReport(list, a)
      [] n = "get_reservation_prices" -> ReservationReport(list)
      [] n = "get_services_by_family" -> FamilyReport(list, ServiceFamilyOf(a))

-----------------------------------------------------------------------------
(* The CallToolRequestSchema handler: try / catch around handleToolCall *)

NoCatch(outcome) ==
    IF outcome.kind = "throw"
    THEN [rejected |-> outcome.message]
    ELSE [content |-> <<[type |-> "text", text |-> outcome.text]>>]

CatchBoundary(outcome) ==
    IF outcome.kind = "throw"
    THEN [content |-> <<[type |-> "text", text |-> Text("Error: ") \o outcome.message]>>,
          isError |-> TRUE]
    ELSE [content |-> <<[type |-> "text", text |-> outcome.text]>>]

-----------------------------------------------------------------------------
(* The upstream *)

OkPage(list, link) == [kind |-> "ok", Items |-> list, NextPageLink |-> link]

HttpFail(status, statusText) ==
    [kind |-> "http", status |-> status, statusText |-> statusText]

\* fetch rejects, or the body is not the JSON the code expects
Broken(message) == [kind |-> "throw", message |-> message]

Pages == {SubSeq(ItemPool, 1, n) : n \in 0..MaxPageLen}

Links == {Null, "https://prices.azure.com/api/retail/prices?$skip=100",
          "https://prices.azure.com/api/retail/prices?$skip=200"}

Outcomes ==
    {OkPage(p, l) : p \in Pages, l \in Links}
    \cup {HttpFail(500, "Internal Server Error"), HttpFail(429, "Too Many Requests")}
    \cup {Broken("fetch failed")}

-----------------------------------------------------------------------------
(* fetchWithPagination and queryAzurePrices *)

ApiError(outcome) ==
    Throw(<<[kind |-> "apifailed", status |-> outcome.status,
             statusText |-> outcome.statusText]>>)

\* while (response.NextPageLink && items.length < maxResults)
LoopCond(resp, list, max) == resp.NextPageLink # Null /\ Len(list) < max

NotReturned == [returned |-> FALSE, value |-> <<>>]

Returned(list) == [returned |-> TRUE, value |-> list]

Count(n) == IF n < MaxCount THEN n + 1 ELSE n

\* the handler ends with the outcome of handleToolCall
Ends(outcome) ==
    /\ result' = CatchBoundary(outcome)
    /\ pc' = "done"

\* fetchWithPagination returns and handleToolCall formats the report
Returns(list) ==
    /\ fetched' = Returned(Slice(list, maxResults))
    /\ Ends(Return(Report(name, args, Slice(list, maxResults))))
    /\ UNCHANGED requests

\* the loop test after a page has been pushed
Continue(resp, list) ==
    IF LoopCond(resp, list, maxResults)
    THEN /\ pc' = "awaitNext"
         /\ requests' = Count(requests)
         /\ UNCHANGED <<fetched, result>>
    ELSE Returns(list)

\* the upstream holds MaxPages non-empty pages
CanServe(outcome) ==
    outcome.kind = "ok" /\ Len(outcome.Items) > 0 => served < MaxPages

Observe(outcome, which) ==
    /\ lastStatus' = IF outcome.kind = "http"
                     THEN [kind |-> "http", status |-> outcome.status,
                           statusText |-> outcome.statusText]
                     ELSE [kind |-> outcome.kind]
    /\ lastRequest' = which
    /\ arrived' = IF outcome.kind = "ok" THEN arrived \o outcome.Items ELSE arrived
    /\ served' = IF outcome.kind = "ok" /\ Len(outcome.Items) > 0
                 THEN served + 1 ELSE served
    /\ firstItems' = IF which = "initial" /\ outcome.kind = "ok"
                     THEN outcome.Items ELSE firstItems

\* if (!response.ok) throw new Error(...) in queryAzurePrices
InitialPageFailedSilently(outcome) ==
    /\ Returns(<<>>)
    /\ UNCHANGED <<items, response>>

InitialPageFailed(outcome) ==
    /\ Ends(ApiError(outcome))
    /\ UNCHANGED <<items, response, fetched, requests>>

\* if (!nextResponse.ok) break
NextPageFailedThrows(outcome) ==
    /\ Ends(ApiError(outcome))
    /\ UNCHANGED <<items, response, fetched, requests>>

NextPageFailed(outcome) ==
    /\ Returns(items)
    /\ UNCHANGED <<items, response>>

-----------------------------------------------------------------------------
(* Actions *)

\* a tools/call request arrives; the handler runs to its first await
CallTool(n, a, h) ==
    /\ pc = "idle"
    /\ name' = n
    /\ args' = a
    /\ hasArgs' = h
    /\ LET pre == Prelude(n, a, h)
       IN  IF pre.kind = "fetch"
           THEN /\ params' = pre.params
                /\ maxResults' = pre.maxResults
                /\ url' = RequestUrl(pre.params)
                /\ requests' = Count(requests)
                /\ pc' = "awaitFirst"
                /\ UNCHANGED <<fetched, result>>
           ELSE /\ Ends(pre)
                /\ UNCHANGED <<params, maxResults, url, requests, fetched>>
    /\ UNCHANGED <<items, response, lastStatus, lastRequest, arrived,
                   firstItems, served>>

\* the initial request of queryAzurePrices ends
FirstResponse(outcome) ==
    /\ pc = "awaitFirst"
    /\ CanServe(outcome)
    /\ Observe(outcome, "initial")
    /\ CASE outcome.kind = "throw" ->
               /\ Ends(Throw(Text(outcome.message)))
               /\ UNCHANGED <<items, response, fetched, requests>>
         [] outcome.kind = "http" -> InitialPageFailed(outcome)
         [] outcome.kind = "ok" ->
               /\ response' = [Items |-> outcome.Items, NextPageLink |-> outcome.NextPageLink]
               /\ items' = Push(<<>>, outcome.Items)
               /\ Continue(response', items')
    /\ UNCHANGED <<name, args, hasArgs, params, maxResults, url>>

\* a request for response.NextPageLink ends
NextResponse(outcome) ==
    /\ pc = "awaitNext"
    /\ CanServe(outcome)
    /\ Observe(outcome, "next")
    /\ CASE outcome.kind = "throw" ->
               /\ Ends(Throw(Text(outcome.message)))
               /\ UNCHANGED <<items, response, fetched, requests>>
         [] outcome.kind = "http" -> NextPageFailed(outcome)
         [] outcome.kind = "ok" ->
               /\ response' = [Items |-> outcome.Items, NextPageLink |-> outcome.NextPageLink]
               /\ items' = Push(items, outcome.Items)
               /\ Continue(response', items')
    /\ UNCHANGED <<name, args, hasArgs, params, maxResults, url>>

-----------------------------------------------------------------------------
(* Inputs *)

Names == ToolNames \cup {"delete_everything"}

ArgBags ==
    { NoBag,
      [maxResults |-> -1],
      [maxResults |-> 0],
      [maxResults |-> 2],
      [maxResults |-> 5000],
      [serviceFamily |-> "Compute"],
      [serviceFamily |-> "compute"],
      [serviceFamily |-> "Storage", maxResults |-> 2],
      [serviceFamily |-> ""],
      [regions |-> <<>>],
      [regions |-> <<"eastus">>, skuName |-> "A"],
      [regions |-> <<"northeurope">>, priceType |-> "Reservation"],
      [serviceName |-> "Storage", armRegionName |-> "eastus", currencyCode |-> "EUR",
       primaryOnly |-> TRUE, customFilter |-> "retailPrice lt 1",
       armSkuName |-> "A"] }

Init ==
    /\ pc = "idle"
    /\ name = ""
    /\ args = NoBag
    /\ hasArgs = FALSE
    /\ params = NoBag
    /\ maxResults = 0
    /\ url = NoBag
    /\ items = <<>>
    /\ response = [Items |-> <<>>, NextPageLink |-> Null]
    /\ fetched = NotReturned
    /\ result = NoBag
    /\ requests = 0
    /\ lastStatus = [kind |-> "none"]
    /\ lastRequest = "none"
    /\ arrived = <<>>
    /\ firstItems = <<>>
    /\ served = 0

Call == \E n \in Names : \/ \E a \in ArgBags : CallTool(n, a, TRUE)
                         \/ CallTool(n, NoBag, FALSE)

First == \E o \in Outcomes : FirstResponse(o)

Following == \E o \in Outcomes : NextResponse(o)

Next == Call \/ First \/ Following

Spec == Init /\ [][Next]_vars

FairSpec == Spec /\ WF_vars(First) /\ WF_vars(Following)

-----------------------------------------------------------------------------
(* buildFilter on every choice of the fields: query_azure_prices hands its  *)
(* arguments to buildFilter unchanged                                       *)

FilterKeys == {simpleFilters[i].param : i \in 1..Len(simpleFilters)} \cup {"customFilter"}

FilterValues == {"", "Virtual Machines"}

FilterBags == UNION {[D -> FilterValues] : D \in SUBSET FilterKeys}

FilterCall == pc = "idle" /\ \E a \in FilterBags : CallTool("query_azure_prices", a, TRUE)

FilterSpec == Init /\ [][FilterCall]_vars

-----------------------------------------------------------------------------
(* compare_vm_prices on pages long enough to fill a group past CompareTop   *)

RECURSIVE Repeat(_, _)
Repeat(base, n) == IF n = 0 THEN <<>> ELSE base \o Repeat(base, n - 1)

BaseIndexes == UNION {[1..k -> 1..Len(ItemPool)] : k \in 1..MaxBase}

ComparePages ==
    {Repeat([i \in 1..Len(b) |-> ItemPool[b[i]]], n) : b \in BaseIndexes, n \in 1..MaxReps}

CompareBags == {NoBag, [regions |-> <<"eastus">>], [regions |-> <<"westus", "eastus">>]}

CompareCall == pc = "idle" /\ \E a \in CompareBags : CallTool("compare_vm_prices", a, TRUE)

CompareFirst == pc = "awaitFirst" /\ \E p \in ComparePages : FirstResponse(OkPage(p, Null))

CompareSpec == Init /\ [][CompareCall \/ CompareFirst]_vars

-----------------------------------------------------------------------------
(* Vocabulary of the properties *)

ResultText == result.content[1].text

IsTextResult(r) ==
    /\ DOMAIN r = {"content"}
    /\ Len(r.content) = 1
    /\ r.content[1].type = "text"

IsErrorResult(r) ==
    /\ DOMAIN r = {"content", "isError"}
    /\ r.isError = TRUE
    /\ Len(r.content) = 1
    /\ r.content[1].type = "text"
    /\ Len(r.content[1].text) >= 2
    /\ r.content[1].text[1] = Verbatim("Error: ")

FirstN(s, k) == [i \in 1..k |-> s[i]]

Smaller(a, b) == IF a <= b THEN a ELSE b

-----------------------------------------------------------------------------
\* C1: whenever fetchWithPagination returns, the list it returns is no
\* longer than the maxResults it was called with, for every cap a tool call
\* can pass (500, 200, min(maxResults || 100, 1000), min(maxResults || 500, 2000)).
\* A cap below zero is read as zero, the least length a list can have, so
\* that only a list holding items can break the bound.
C1_LengthAtMostCap ==
    fetched.returned =>
        Len(fetched.value) <= (IF maxResults < 0 THEN 0 ELSE maxResults)

-----------------------------------------------------------------------------
\* C2: every call that reaches fetchWithPagination eventually returns, also
\* when every page request succeeds and every page carries a next-page link.
C2_FetchTerminates ==
    (pc = "awaitFirst") ~> (pc = "done")

-----------------------------------------------------------------------------
\* C3: the handler ends every call with a text result or with an
\* error-flagged result whose text starts with "Error: ", never with a
\* propagated failure; a name outside the five registered tools gives the
\* error-flagged result "Error: Unknown tool: <name>".
C3_DispatcherTotal ==
    pc = "done" =>
        /\ IsTextResult(result) \/ IsErrorResult(result)
        /\ name \notin ToolNames =>
              /\ IsErrorResult(result)
              /\ ResultText = <<Verbatim("Error: "), [kind |-> "unknowntool", name |-> name]>>

C3_UnknownToolAnswered ==
    /\ pc = "done"
    /\ name \notin ToolNames
    /\ hasArgs
    /\ IsErrorResult(result)

-----------------------------------------------------------------------------
\* C4: compare_vm_prices answers "No VM prices found for the specified
\* criteria." whenever no item is left after the fetch and the region filter.
C4_EmptyComparisonMessage ==
    ( /\ pc = "done"
      /\ name = "compare_vm_prices"
      /\ fetched.returned
      /\ RegionFilter(fetched.value, args) = <<>> )
    => ResultText = Text("No VM prices found for the specified criteria.")

-----------------------------------------------------------------------------
\* C5: get_services_by_family with a serviceFamily outside SERVICE_FAMILIES
\* issues no request and ends with a text result, not error-flagged, that
\* names the value and points at get_service_families; a request is issued
\* only for a member of SERVICE_FAMILIES.
C5_UnknownFamilyNoFetch ==
    name = "get_services_by_family" =>
        /\ requests > 0 => hasArgs /\ Includes(SERVICE_FAMILIES, ServiceFamilyOf(args))
        /\ hasArgs /\ ~Includes(SERVICE_FAMILIES, ServiceFamilyOf(args)) =>
              /\ pc = "done"
              /\ requests = 0
              /\ ~fetched.returned
              /\ IsTextResult(result)
              /\ ResultText = <<[kind |-> "unknownfamily",
                                 serviceFamily |-> ServiceFamilyOf(args),
                                 use |-> "get_service_families"]>>

C5_UnknownFamilyAnswered ==
    /\ pc = "done"
    /\ name = "get_services_by_family"
    /\ hasArgs
    /\ Has(args, "serviceFamily")
    /\ args["serviceFamily"] = "compute"
    /\ requests = 0

-----------------------------------------------------------------------------
\* C6: the $filter of the initial request holds one "field eq 'value'"
\* clause per supplied non-empty field, in declaration order, then the
\* custom filter verbatim, with " and " between neighbours; nothing
\* supplied gives the empty string, a lone custom filter gives itself.
DeclaredFields ==
    << "serviceName", "serviceFamily", "armRegionName", "armSkuName",
       "priceType", "productName", "skuName", "meterName" >>

FilterSent == IF Has(url, "$filter") THEN url["$filter"] ELSE <<>>

C6_FilterClauses ==
    pc = "awaitFirst" /\ name = "query_azure_prices" =>
        LET supplied == SelectSeq(DeclaredFields,
                                  LAMBDA f : Has(args, f) /\ args[f] # "")
            custom == Has(args, "customFilter") /\ args["customFilter"] # ""
            n == Len(supplied) + (IF custom THEN 1 ELSE 0)
            out == FilterSent
        IN  /\ Len(out) = IF n = 0 THEN 0 ELSE 2 * n - 1
            /\ \A i \in 1..Len(supplied) :
                  out[2 * i - 1] = [kind |-> "eq", field |-> supplied[i],
                                    value |-> args[supplied[i]]]
            /\ custom => out[2 * n - 1] = [kind |-> "verbatim", text |-> args["customFilter"]]
            /\ \A i \in 1..(n - 1) : out[2 * i] = [kind |-> "separator", text |-> " and "]
            /\ (n = 1 /\ custom) => out = <<[kind |-> "verbatim", text |-> args["customFilter"]]>>

C6_AllFieldsSupplied ==
    /\ pc = "awaitFirst"
    /\ name = "query_azure_prices"
    /\ \A f \in FilterKeys : Has(args, f) /\ args[f] # ""
    /\ Len(FilterSent) = 17

-----------------------------------------------------------------------------
\* C7: the comparison report has one heading per ARM SKU name of the
\* region-filtered items, in first-seen order; the lines under a heading are
\* the min(10, size) cheapest items of that group in ascending price order.
Headings(rep) == SelectSeq(rep, LAMBDA t : t.kind = "heading")

FirstIndex(list, sku) ==
    CHOOSE i \in 1..Len(list) :
        /\ list[i].armSkuName = sku
        /\ \A j \in 1..(i - 1) : list[j].armSkuName # sku

\* the unbroken run of line tokens that follows position h
LinesUnder(rep, h) ==
    LET run == {k \in 0..(Len(rep) - h) : \A j \in (h + 1)..(h + k) : rep[j].kind = "line"}
        len == CHOOSE k \in run : \A m \in run : m <= k
    IN  SubSeq(rep, h + 1, h + len)

KthSmallest(group, k) ==
    CHOOSE v \in {group[i].retailPrice : i \in 1..Len(group)} :
        /\ Cardinality({i \in 1..Len(group) : group[i].retailPrice <= v}) >= k
        /\ Cardinality({i \in 1..Len(group) : group[i].retailPrice < v}) < k

C7_Example ==
    /\ pc = "done"
    /\ name = "compare_vm_prices"
    /\ fetched.returned
    /\ LET rep == ResultText
           list == RegionFilter(fetched.value, args)
       IN  /\ [i \in 1..Len(list) |-> <<list[i].armSkuName, list[i].retailPrice>>]
                 = << <<"A", 3>>, <<"A", 1>>, <<"A", 2>>, <<"B", 5>> >>
           /\ [i \in 1..Len(Headings(rep)) |-> Headings(rep)[i].sku] = <<"A", "B">>
           /\ [i \in 1..3 |-> LinesUnder(rep, 2)[i].retailPrice] = <<1, 2, 3>>

-----------------------------------------------------------------------------
\* C8: when a request for a second or later page ends in a non-success
\* status, the call ends at once with a result that is not error-flagged and
\* fetchWithPagination returns the items delivered before it, in order, cut
\* to the cap; when it is the second request, these are the first page's items.
C8_LaterPageFailureKeepsItems ==
    lastRequest = "next" /\ lastStatus.kind = "http" =>
        /\ pc = "done"
        /\ IsTextResult(result)
        /\ fetched.returned
        /\ fetched.value = FirstN(arrived, Smaller(maxResults, Len(arrived)))
        /\ fetched.value = arrived
        /\ requests = 2 => fetched.value = firstItems

C8_SecondPageFailed ==
    /\ pc = "done"
    /\ lastRequest = "next"
    /\ lastStatus.kind = "http"
    /\ requests = 2
    /\ Len(firstItems) > 0
    /\ fetched.value = firstItems

-----------------------------------------------------------------------------
\* C9: when the initial request ends in a non-success status, the call ends
\* at once: no further request, no list returned by fetchWithPagination, and
\* the error-flagged result "Error: API request failed: <status> <statusText>".
C9_InitialFailureFatal ==
    lastRequest = "initial" /\ lastStatus.kind = "http" =>
        /\ pc = "done"
        /\ requests = 1
        /\ ~fetched.returned
        /\ IsErrorResult(result)
        /\ ResultText = <<Verbatim("Error: "),
                          [kind |-> "apifailed", status |-> lastStatus.status,
                           statusText |-> lastStatus.statusText]>>

C9_InitialFailed ==
    /\ pc = "done"
    /\ lastRequest = "initial"
    /\ lastStatus.kind = "http"
    /\ lastStatus.status = 429
    /\ result.isError

-----------------------------------------------------------------------------
\* C10: the list fetchWithPagination returns is the first min(cap, N) items
\* of the items delivered by the pages fetched, in arrival order, N being
\* their number; a next page is requested only while the latest page carries
\* a link and fewer than cap items are accumulated.
C10_FirstMinCapN ==
    /\ fetched.returned =>
          fetched.value = FirstN(arrived, Smaller(maxResults, Len(arrived)))
    /\ pc = "awaitNext" => response.NextPageLink # Null /\ Len(items) < maxResults

====
